---- MODULE Spec2Model ----
(***************************************************************************)
(* A model of yazi's Url addressing value: Scheme (scheme.rs), Url         *)
(* (url.rs) and the two existence helpers of the CLI (shared.rs).          *)
(*                                                                         *)
(* Text is a sequence of bytes, a byte is a number in 0..255.  A Url is a  *)
(* record [loc, scheme, frag]; a Scheme is [tag, name] with name the Sftp  *)
(* connection name (empty for the other variants); a Loc is [path, base],  *)
(* the path text and the recorded base anchor.                             *)
(***************************************************************************)
EXTENDS Integers, Sequences, FiniteSets, TLC

VARIABLES
    u, text, sres, res, tpc,          \* text round trip: Display, Scheme::parse, try_from
    a, b, out,                        \* a pair of Urls and the last comparison made on it
    cur, hist, anchor, depth,         \* navigation: join / parent_url / to_search
    fs, epc, fn, arg, outcome, ret, lookups   \* existence helpers over the filesystem

textVars == <<u, text, sres, res, tpc>>
pairVars == <<a, b, out>>
navVars == <<cur, hist, anchor, depth>>
fsVars == <<fs, epc, fn, arg, outcome, ret, lookups>>
vars == <<textVars, pairVars, navVars, fsVars>>

----------------------------------------------------------------------------
(* Bounds of the model. *)

\* longest Location text of a Url drawn for the text round trip
MaxTextLen == 3
\* longest tail appended to a scheme prefix in a raw input of Scheme::parse
MaxTailLen == 3
\* longest Location text of the Urls drawn for comparison
MaxPairLen == 2
\* longest Location text a navigation starts from
MaxStartLen == 2
\* longest Location text a navigation joins onto
MaxNavLen == 4

----------------------------------------------------------------------------
(* Bytes and text. *)

Ascii ==
    ("/" :> 47) @@ (":" :> 58) @@ ("#" :> 35) @@ ("%" :> 37) @@ ("-" :> 45)
    @@ ("!" :> 33) @@ (" " :> 32) @@ ("_" :> 95) @@ ("\t" :> 9)
    @@ ("0" :> 48) @@ ("1" :> 49) @@ ("2" :> 50) @@ ("3" :> 51) @@ ("9" :> 57)
    @@ ("a" :> 97) @@ ("b" :> 98) @@ ("c" :> 99) @@ ("d" :> 100) @@ ("e" :> 101)
    @@ ("f" :> 102) @@ ("g" :> 103) @@ ("h" :> 104) @@ ("i" :> 105)
    @@ ("l" :> 108) @@ ("m" :> 109) @@ ("o" :> 111) @@ ("p" :> 112)
    @@ ("q" :> 113) @@ ("r" :> 114) @@ ("s" :> 115) @@ ("t" :> 116)
    @@ ("u" :> 117) @@ ("v" :> 118) @@ ("x" :> 120)

\* the bytes of a literal, written as a tuple of one-character strings
B(lit) == [i \in 1..Len(lit) |-> Ascii[lit[i]]]

\* every text over the alphabet A of at most n bytes
TextUpTo(A, n) == UNION {[1..k -> A] : k \in 0..n}

Drop(s, n) == SubSeq(s, n + 1, Len(s))

IsPrefix(p, s) == Len(p) <= Len(s) /\ SubSeq(s, 1, Len(p)) = p

\* BytesExt::split_by_seq: split at the first occurrence of seq
SplitBySeq(bytes, seq) ==
    LET n == Len(seq)
        hits == {i \in 1..(Len(bytes) - n + 1) : SubSeq(bytes, i, i + n - 1) = seq}
    IN  IF hits = {}
        THEN [found |-> FALSE, before |-> bytes, after |-> <<>>]
        ELSE LET i == CHOOSE h \in hits : \A h2 \in hits : h <= h2
             IN  [found |-> TRUE,
                  before |-> SubSeq(bytes, 1, i - 1),
                  after |-> Drop(bytes, i + n - 1)]

\* u8::is_ascii_alphanumeric
IsAsciiAlphanumeric(c) ==
    \/ c \in 48..57
    \/ c \in 65..90
    \/ c \in 97..122

----------------------------------------------------------------------------
(* Scheme (scheme.rs). *)

Regular == [tag |-> "Regular", name |-> <<>>]
Search == [tag |-> "Search", name |-> <<>>]
SearchItem == [tag |-> "SearchItem", name |-> <<>>]
Archive == [tag |-> "Archive", name |-> <<>>]
Sftp(name) == [tag |-> "Sftp", name |-> name]

\* impl Display for Scheme
SchemeDisplay(s) ==
    CASE s.tag = "Regular" -> B(<<"r","e","g","u","l","a","r",":","/","/">>)
      [] s.tag = "Search" -> B(<<"s","e","a","r","c","h",":","/","/">>)
      [] s.tag = "SearchItem" ->
            B(<<"s","e","a","r","c","h","_","i","t","e","m",":","/","/">>)
      [] s.tag = "Archive" -> B(<<"a","r","c","h","i","v","e",":","/","/">>)
      [] s.tag = "Sftp" -> B(<<"s","f","t","p",":","/","/">>) \o s.name \o B(<<"/">>)

RECURSIVE TakeWhileNotSlash(_)
TakeWhileNotSlash(bytes) ==
    IF bytes = <<>> \/ Head(bytes) = Ascii["/"]
    THEN <<>>
    ELSE <<Head(bytes)>> \o TakeWhileNotSlash(Tail(bytes))

\* Scheme::parse_name
ParseName(bytes) ==
    LET name == TakeWhileNotSlash(bytes)
        len == Len(name)
        slash == IF len < Len(bytes) /\ bytes[len + 1] = Ascii["/"] THEN 1 ELSE 0
    IN  IF name = <<>>
        THEN [ok |-> FALSE, err |-> "Scheme name cannot be empty"]
        ELSE IF ~ \A i \in 1..len : IsAsciiAlphanumeric(name[i]) \/ name[i] = Ascii["-"]
        THEN [ok |-> FALSE,
              err |-> "Scheme name can only contain alphanumeric characters and dashes"]
        ELSE [ok |-> TRUE, name |-> name, skip |-> len + slash]

\* Scheme::parse counting "sftp:" but not the "//" that follows it
SchemeParseShortSkip(bytes) ==
    LET sp == SplitBySeq(bytes, B(<<":","/","/">>))
        protocol == sp.before
    IN  IF ~ sp.found
        THEN [ok |-> TRUE, scheme |-> Regular, skip |-> 0]
        ELSE CASE protocol = B(<<"r","e","g","u","l","a","r">>) ->
                    [ok |-> TRUE, scheme |-> Regular, skip |-> 10]
               [] protocol = B(<<"s","e","a","r","c","h">>) ->
                    [ok |-> TRUE, scheme |-> Search, skip |-> 9]
               [] protocol = B(<<"a","r","c","h","i","v","e">>) ->
                    [ok |-> TRUE, scheme |-> Archive, skip |-> 10]
               [] protocol = B(<<"s","f","t","p">>) ->
                    LET pn == ParseName(sp.after)
                    IN  IF pn.ok
                        THEN [ok |-> TRUE, scheme |-> Sftp(pn.name), skip |-> 5 + pn.skip]
                        ELSE [ok |-> FALSE, err |-> pn.err]
               [] OTHER -> [ok |-> FALSE, err |-> "Could not parse scheme from URL"]

\* Scheme::parse
SchemeParse(bytes) ==
    LET sp == SplitBySeq(bytes, B(<<":","/","/">>))
        protocol == sp.before
    IN  IF ~ sp.found
        THEN [ok |-> TRUE, scheme |-> Regular, skip |-> 0]
        ELSE CASE protocol = B(<<"r","e","g","u","l","a","r">>) ->
                    [ok |-> TRUE, scheme |-> Regular, skip |-> 10]
               [] protocol = B(<<"s","e","a","r","c","h">>) ->
                    [ok |-> TRUE, scheme |-> Search, skip |-> 9]
               [] protocol = B(<<"a","r","c","h","i","v","e">>) ->
                    [ok |-> TRUE, scheme |-> Archive, skip |-> 10]
               [] protocol = B(<<"s","f","t","p">>) ->
                    LET pn == ParseName(sp.after)
                    IN  IF pn.ok
                        THEN [ok |-> TRUE, scheme |-> Sftp(pn.name), skip |-> 7 + pn.skip]
                        ELSE [ok |-> FALSE, err |-> pn.err]
               [] OTHER -> [ok |-> FALSE, err |-> "Could not parse scheme from URL"]

----------------------------------------------------------------------------
(* The Location primitive: a path text with a recorded base anchor.  Paths *)
(* follow std::path: '/' separates names, repeated and trailing separators *)
(* are not significant, a leading one makes the path absolute.             *)

RECURSIVE StripSlashes(_)
StripSlashes(p) ==
    IF p # <<>> /\ p[Len(p)] = Ascii["/"]
    THEN StripSlashes(SubSeq(p, 1, Len(p) - 1))
    ELSE p

RECURSIVE StripName(_)
StripName(p) ==
    IF p # <<>> /\ p[Len(p)] # Ascii["/"]
    THEN StripName(SubSeq(p, 1, Len(p) - 1))
    ELSE p

IsAbsolute(p) == p # <<>> /\ p[1] = Ascii["/"]

RECURSIVE Names(_)
Names(p) ==
    IF p = <<>> THEN <<>>
    ELSE IF Head(p) = Ascii["/"] THEN Names(Tail(p))
    ELSE LET n == TakeWhileNotSlash(p) IN <<n>> \o Names(Drop(p, Len(n)))

\* Path::components: the root (written as the empty name) and the names
PathComponents(p) == (IF IsAbsolute(p) THEN <<(<<>>)>> ELSE <<>>) \o Names(p)

\* Path equality compares components
PathEq(p, q) == PathComponents(p) = PathComponents(q)

\* Path::parent is None for a root and for the empty path
HasParent(p) == Names(p) # <<>>

\* Path::parent: the path without its final name
PathParent(p) ==
    LET cut == StripName(StripSlashes(p))
        bare == StripSlashes(cut)
    IN  IF bare = <<>> /\ cut # <<>> THEN B(<<"/">>) ELSE bare

\* Path::join (PathBuf::push): an absolute argument replaces the path
PathJoin(p, seg) ==
    IF IsAbsolute(seg) THEN seg
    ELSE IF p # <<>> /\ p[Len(p)] # Ascii["/"] THEN p \o B(<<"/">>) \o seg
    ELSE p \o seg

\* Loc::from(path): the base is what precedes the final name
LocFrom(path) == [path |-> path, base |-> StripName(StripSlashes(path))]

\* Loc::with(base, path)
LocWith(base, path) == [path |-> path, base |-> base]

\* Loc equality is the equality of the paths
LocEq(l, m) == PathEq(l.path, m.path)

\* Path::display: text that is not valid UTF-8 is shown lossily (U+FFFD)
RECURSIVE PathDisplay(_)
PathDisplay(p) ==
    IF p = <<>> THEN <<>>
    ELSE (IF Head(p) < 128 THEN <<Head(p)>> ELSE <<239, 191, 189>>)
         \o PathDisplay(Tail(p))

\* IntoOsStr::into_os_str: every byte string is platform text (Unix)
IntoOsStr(bytes) == [ok |-> TRUE, val |-> bytes]

----------------------------------------------------------------------------
(* Percent-encoding (percent_encoding crate) with ENCODE_SET. *)

\* CONTROLS: the C0 controls and DEL
InControls(c) == c < 32 \/ c = 127

\* ENCODE_SET = CONTROLS.add(b'#')
InEncodeSet(c) == InControls(c) \/ c = Ascii["#"]

HexDigit(n) == IF n < 10 THEN 48 + n ELSE 55 + n

IsHex(c) == c \in 48..57 \/ c \in 65..70 \/ c \in 97..102

HexValue(c) == IF c \in 48..57 THEN c - 48 ELSE IF c \in 65..70 THEN c - 55 ELSE c - 87

\* percent_encode(bytes, ENCODE_SET): non-ASCII bytes are always encoded
RECURSIVE PercentEncode(_)
PercentEncode(bytes) ==
    IF bytes = <<>> THEN <<>>
    ELSE LET c == Head(bytes)
         IN  (IF c >= 128 \/ InEncodeSet(c)
              THEN <<Ascii["%"], HexDigit(c \div 16), HexDigit(c % 16)>>
              ELSE <<c>>)
             \o PercentEncode(Tail(bytes))

\* percent_decode: "%" followed by two hex digits is one byte, anything else is kept
RECURSIVE PercentDecode(_)
PercentDecode(bytes) ==
    IF bytes = <<>> THEN <<>>
    ELSE IF /\ Head(bytes) = Ascii["%"]
            /\ Len(bytes) >= 3
            /\ IsHex(bytes[2])
            /\ IsHex(bytes[3])
    THEN <<16 * HexValue(bytes[2]) + HexValue(bytes[3])>> \o PercentDecode(Drop(bytes, 3))
    ELSE <<Head(bytes)>> \o PercentDecode(Tail(bytes))

----------------------------------------------------------------------------
(* Url (url.rs): construction, parsing and display. *)

MkUrl(loc, scheme, frag) == [loc |-> loc, scheme |-> scheme, frag |-> frag]

\* Url::local
Local(path) == MkUrl(LocFrom(path), Regular, <<>>)

\* Url::to_search
ToSearch(url, frag) == MkUrl(url.loc, Search, frag)

\* Url::to_regular
ToRegular(url) == MkUrl(url.loc, Regular, <<>>)

\* impl TryFrom<&[u8]> for Url
TryFrom(bytes) ==
    LET sp == SchemeParse(bytes)
    IN  IF ~ sp.ok THEN [ok |-> FALSE, err |-> sp.err]
        ELSE LET rest == Drop(bytes, sp.skip)
             IN  IF sp.scheme = Regular
                 THEN LET os == IntoOsStr(rest)
                      IN  IF os.ok
                          THEN [ok |-> TRUE, url |-> MkUrl(LocFrom(os.val), sp.scheme, <<>>)]
                          ELSE [ok |-> FALSE, err |-> "invalid text"]
                 ELSE LET cut == SplitBySeq(rest, B(<<"#">>))
                          locBytes == IF cut.found THEN cut.before ELSE rest
                          fragOs == IF cut.found THEN IntoOsStr(cut.after)
                                    ELSE [ok |-> TRUE, val |-> <<>>]
                          locOs == IntoOsStr(PercentDecode(locBytes))
                      IN  IF fragOs.ok /\ locOs.ok
                          THEN [ok |-> TRUE,
                                url |-> MkUrl(LocFrom(locOs.val), sp.scheme, fragOs.val)]
                          ELSE [ok |-> FALSE, err |-> "invalid text"]

\* impl Display for Url
UrlDisplay(url) ==
    IF url.scheme.tag \in {"Regular", "SearchItem"}
    THEN PathDisplay(url.loc.path)
    ELSE SchemeDisplay(url.scheme) \o B(<<":","/","/">>) \o PercentEncode(url.loc.path)
         \o (IF url.frag # <<>>
             THEN B(<<"#">>) \o PercentEncode(url.frag)
             ELSE <<>>)

----------------------------------------------------------------------------
(* Url (url.rs): the hierarchy algebra. *)

NoUrl == [none |-> TRUE]

\* Url::join taking the item itself as the base of a SearchItem's child
UrlJoinDrift(url, seg) ==
    CASE url.scheme.tag = "Regular" ->
            MkUrl(LocFrom(PathJoin(url.loc.path, seg)), Regular, <<>>)
      [] url.scheme.tag \in {"Search", "SearchItem"} ->
            MkUrl(LocWith(url.loc.path, PathJoin(url.loc.path, seg)), SearchItem, <<>>)
      [] url.scheme.tag = "Archive" ->
            MkUrl(LocFrom(PathJoin(url.loc.path, seg)), Archive, <<>>)
      [] url.scheme.tag = "Sftp" ->
            MkUrl(LocFrom(PathJoin(url.loc.path, seg)), url.scheme, <<>>)

\* Url::join
UrlJoin(url, seg) ==
    CASE url.scheme.tag = "Regular" ->
            MkUrl(LocFrom(PathJoin(url.loc.path, seg)), Regular, <<>>)
      [] url.scheme.tag = "Search" ->
            MkUrl(LocWith(url.loc.path, PathJoin(url.loc.path, seg)), SearchItem, <<>>)
      [] url.scheme.tag = "SearchItem" ->
            MkUrl(LocWith(url.loc.base, PathJoin(url.loc.path, seg)), SearchItem, <<>>)
      [] url.scheme.tag = "Archive" ->
            MkUrl(LocFrom(PathJoin(url.loc.path, seg)), Archive, <<>>)
      [] url.scheme.tag = "Sftp" ->
            MkUrl(LocFrom(PathJoin(url.loc.path, seg)), url.scheme, <<>>)

\* Url::parent_url treating Sftp like Archive (demoted to Regular)
UrlParentUrlDemoteSftp(url) ==
    LET base == url.loc.base
        parent == PathParent(url.loc.path)
    IN  IF ~ HasParent(url.loc.path) THEN NoUrl
        ELSE CASE url.scheme.tag \in {"Regular", "Search"} ->
                    MkUrl(LocFrom(parent), url.scheme, <<>>)
               [] url.scheme.tag = "SearchItem" /\ PathEq(parent, base) ->
                    MkUrl(LocFrom(parent), Search, <<>>)
               [] url.scheme.tag = "SearchItem" /\ ~ PathEq(parent, base) ->
                    MkUrl(LocWith(base, parent), SearchItem, <<>>)
               [] url.scheme.tag \in {"Archive", "Sftp"} ->
                    MkUrl(LocFrom(parent), Regular, <<>>)

\* Url::parent_url; NoUrl is None
UrlParentUrl(url) ==
    LET base == url.loc.base
        parent == PathParent(url.loc.path)
    IN  IF ~ HasParent(url.loc.path) THEN NoUrl
        ELSE CASE url.scheme.tag \in {"Regular", "Search"} ->
                    MkUrl(LocFrom(parent), url.scheme, <<>>)
               [] url.scheme.tag = "SearchItem" /\ PathEq(parent, base) ->
                    MkUrl(LocFrom(parent), Search, <<>>)
               [] url.scheme.tag = "SearchItem" /\ ~ PathEq(parent, base) ->
                    MkUrl(LocWith(base, parent), SearchItem, <<>>)
               [] url.scheme.tag = "Archive" ->
                    MkUrl(LocFrom(parent), Regular, <<>>)
               [] url.scheme.tag = "Sftp" ->
                    MkUrl(LocFrom(parent), url.scheme, <<>>)

----------------------------------------------------------------------------
(* Url (url.rs): equality, hash and the derived order. *)

\* the equality derive(PartialEq) would give: every field takes part
UrlEqStructural(x, y) == LocEq(x.loc, y.loc) /\ x.scheme = y.scheme /\ x.frag = y.frag

\* impl PartialEq for Url
UrlEq(x, y) ==
    IF x.scheme.tag \in {"Regular", "SearchItem"} /\ y.scheme.tag \in {"Regular", "SearchItem"}
    THEN LocEq(x.loc, y.loc)
    ELSE LocEq(x.loc, y.loc) /\ x.scheme = y.scheme

\* the position of a variant in enum Scheme
Discriminant(s) ==
    CASE s.tag = "Regular" -> 0
      [] s.tag = "Search" -> 1
      [] s.tag = "SearchItem" -> 2
      [] s.tag = "Archive" -> 3
      [] s.tag = "Sftp" -> 4

\* derive(Hash) for Scheme: the discriminant, then the fields of the variant
SchemeHash(s) == [disc |-> Discriminant(s), name |-> s.name]

\* impl Hash for Url: what is written to the hasher, absent parts as <<>>.
\* The hasher is a function of this stream, taken to have no collisions.
UrlHash(url) ==
    [loc |-> PathComponents(url.loc.path),
     scheme |-> IF url.scheme.tag \in {"Regular", "SearchItem"}
                THEN <<>>
                ELSE <<SchemeHash(url.scheme)>>,
     frag |-> IF url.scheme.tag = "Search" THEN <<url.frag>> ELSE <<>>]

\* lexicographic order of two byte strings
RECURSIVE CmpBytes(_, _)
CmpBytes(x, y) ==
    IF x = <<>> /\ y = <<>> THEN "Equal"
    ELSE IF x = <<>> THEN "Less"
    ELSE IF y = <<>> THEN "Greater"
    ELSE IF Head(x) < Head(y) THEN "Less"
    ELSE IF Head(x) > Head(y) THEN "Greater"
    ELSE CmpBytes(Tail(x), Tail(y))

\* lexicographic order of two component lists (the root sorts first)
RECURSIVE CmpComponents(_, _)
CmpComponents(x, y) ==
    IF x = <<>> /\ y = <<>> THEN "Equal"
    ELSE IF x = <<>> THEN "Less"
    ELSE IF y = <<>> THEN "Greater"
    ELSE IF CmpBytes(Head(x), Head(y)) # "Equal" THEN CmpBytes(Head(x), Head(y))
    ELSE CmpComponents(Tail(x), Tail(y))

\* derive(Ord) for Scheme: by variant, then by the Sftp name
SchemeCmp(s, t) ==
    IF Discriminant(s) < Discriminant(t) THEN "Less"
    ELSE IF Discriminant(s) > Discriminant(t) THEN "Greater"
    ELSE CmpBytes(s.name, t.name)

\* derive(Ord, PartialOrd) for Url: loc, then scheme, then frag
UrlCmp(x, y) ==
    LET byLoc == CmpComponents(PathComponents(x.loc.path), PathComponents(y.loc.path))
        byScheme == SchemeCmp(x.scheme, y.scheme)
    IN  IF byLoc # "Equal" THEN byLoc
        ELSE IF byScheme # "Equal" THEN byScheme
        ELSE CmpBytes(x.frag, y.frag)

----------------------------------------------------------------------------
(* The existence helpers (shared.rs) over the metadata service. *)

\* Local::symlink_metadata on a filesystem entry: Ok or the io::ErrorKind
SymlinkMetadata(entry) ==
    CASE entry = "present" -> "Ok"
      [] entry = "absent" -> "NotFound"
      [] entry = "denied" -> "PermissionDenied"
      [] entry = "looped" -> "FilesystemLoop"

\* must_exists: is_ok() of the lookup
MustExistsOf(result) == result = "Ok"

\* maybe_exists answering like must_exists
MaybeExistsOkOnly(result) == result = "Ok"

\* maybe_exists: Ok(_) => true, Err(e) => e.kind() != NotFound
MaybeExistsOf(result) ==
    IF result = "Ok" THEN TRUE ELSE result # "NotFound"

----------------------------------------------------------------------------
(* The inputs the specifications draw from. *)

Unset == [unset |-> TRUE]

Idle == "none"

TextAlphabet == {Ascii["/"], Ascii["a"], Ascii["#"], Ascii["%"], Ascii[":"]}

\* Location texts of the documented examples, and texts that look encoded
NotablePaths ==
    {B(<<"/","a"," ","b","#","c">>), B(<<"/","a","#","b">>), B(<<"/","a","%","2","3">>),
     B(<<"/","a","\t">>), B(<<"a",":","/","/","b">>)}

TextPaths == TextUpTo(TextAlphabet, MaxTextLen) \cup NotablePaths

TextSchemes == {Regular, Search, SearchItem, Archive, Sftp(B(<<"b","o","x","-","1">>))}

TextFrags == {<<>>, B(<<"q">>), B(<<"#">>)}

TextUrls ==
    {MkUrl(LocFrom(p), s, f) : p \in TextPaths, s \in TextSchemes, f \in TextFrags}

RawPrefixes ==
    {<<>>,
     B(<<"r","e","g","u","l","a","r",":","/","/">>),
     B(<<"s","e","a","r","c","h",":","/","/">>),
     B(<<"a","r","c","h","i","v","e",":","/","/">>),
     B(<<"s","f","t","p",":","/","/">>),
     B(<<"s","f","t","p",":","/","/","b","o","x">>),
     B(<<"f","t","p",":","/","/">>),
     B(<<"s","e","a","r","c","h","_","i","t","e","m",":","/","/">>)}

TailAlphabet == {Ascii["/"], Ascii["a"], Ascii["-"], Ascii["!"], Ascii[":"], Ascii["#"]}

RawExamples ==
    {B(<<"a","r","c","h","i","v","e",":","/","/","a","/","b">>),
     B(<<"s","f","t","p",":","/","/","b","o","x","-","1","/","a">>),
     B(<<"s","f","t","p",":","/","/","/","a">>),
     B(<<"s","f","t","p",":","/","/","b","a","d","!","/","a">>),
     B(<<"/","a","/","b">>)}

RawInputs ==
    {p \o t : p \in RawPrefixes, t \in TextUpTo(TailAlphabet, MaxTailLen)} \cup RawExamples

PathAlphabet == {Ascii["/"], Ascii["a"]}

PairSchemes == {Regular, Search, Archive, Sftp(B(<<"b">>)), Sftp(B(<<"c">>))}

PairFrags == {<<>>, B(<<"q">>)}

PairPaths == TextUpTo(PathAlphabet, MaxPairLen) \cup {B(<<"/","a","/","x">>)}

PairUrls ==
    {MkUrl(LocFrom(p), s, f) : p \in PairPaths, s \in PairSchemes, f \in PairFrags}

PairSegs == {B(<<"x">>)}

NavSchemes == {Regular, Search, Archive, Sftp(B(<<"b">>))}

NavUrls ==
    {MkUrl(LocFrom(p), s, f) :
        p \in TextUpTo(PathAlphabet, MaxStartLen), s \in NavSchemes, f \in PairFrags}

\* single path segments: plain names
NavSegs == {B(<<"a">>), B(<<"b">>)}

FsPaths == {"/tmp/x", "/root/y"}

FsEntries == {"present", "absent", "denied", "looped"}

----------------------------------------------------------------------------
(* Text: a Url is displayed and the text parsed back; raw text is parsed. *)

InitText ==
    /\ \/ /\ u \in TextUrls
          /\ text = <<>>
          /\ tpc = "url"
       \/ /\ u = NoUrl
          /\ text \in RawInputs
          /\ tpc = "raw"
    /\ sres = Unset
    /\ res = Unset
    /\ a = NoUrl /\ b = NoUrl /\ out = Unset
    /\ cur = NoUrl /\ hist = <<>> /\ anchor = NoUrl /\ depth = 0
    /\ fs = <<>> /\ epc = Idle /\ fn = Idle /\ arg = Idle
    /\ outcome = Idle /\ ret = Idle /\ lookups = 0

\* to_string(): impl Display for Url
DoDisplay ==
    /\ tpc = "url"
    /\ text' = UrlDisplay(u)
    /\ tpc' = "shown"
    /\ UNCHANGED <<u, sres, res, pairVars, navVars, fsVars>>

\* Scheme::parse on the text
DoSchemeParse ==
    /\ tpc \in {"shown", "raw"}
    /\ sres = Unset
    /\ sres' = SchemeParse(text)
    /\ UNCHANGED <<u, text, res, tpc, pairVars, navVars, fsVars>>

\* Url::try_from on the text
DoTryFrom ==
    /\ tpc \in {"shown", "raw"}
    /\ res = Unset
    /\ res' = TryFrom(text)
    /\ UNCHANGED <<u, text, sres, tpc, pairVars, navVars, fsVars>>

NextText == DoDisplay \/ DoSchemeParse \/ DoTryFrom

SpecText == InitText /\ [][NextText]_vars

----------------------------------------------------------------------------
(* Pairs: two Urls are compared, hashed and ordered. *)

InitPair ==
    /\ a \in PairUrls
    /\ b \in PairUrls
    /\ out = Unset
    /\ u = NoUrl /\ text = <<>> /\ sres = Unset /\ res = Unset /\ tpc = Idle
    /\ cur = NoUrl /\ hist = <<>> /\ anchor = NoUrl /\ depth = 0
    /\ fs = <<>> /\ epc = Idle /\ fn = Idle /\ arg = Idle
    /\ outcome = Idle /\ ret = Idle /\ lookups = 0

\* a == b
PairEq ==
    /\ out' = [op |-> "eq", val |-> UrlEq(a, b)]
    /\ UNCHANGED <<a, b, textVars, navVars, fsVars>>

\* a.hash(state) and b.hash(state), each into a fresh hasher
PairHash ==
    /\ out' = [op |-> "hash", val |-> <<UrlHash(a), UrlHash(b)>>]
    /\ UNCHANGED <<a, b, textVars, navVars, fsVars>>

\* a.cmp(&b)
PairCmp ==
    /\ out' = [op |-> "cmp", val |-> UrlCmp(a, b)]
    /\ UNCHANGED <<a, b, textVars, navVars, fsVars>>

\* a = a.join(seg)
PairJoin(seg) ==
    /\ Len(a.loc.path) <= MaxPairLen
    /\ a' = UrlJoin(a, seg)
    /\ out' = Unset
    /\ UNCHANGED <<b, textVars, navVars, fsVars>>

NextPair == PairEq \/ PairHash \/ PairCmp \/ \E seg \in PairSegs : PairJoin(seg)

SpecPair == InitPair /\ [][NextPair]_vars

----------------------------------------------------------------------------
(* Navigation: join, parent_url and to_search applied to the current Url.  *)
(* hist keeps the last two operations; anchor is the Search Url the        *)
(* current search navigation started from and depth the number of joins    *)
(* not yet undone by parent_url.                                           *)

LastTwo(h) == IF Len(h) > 2 THEN SubSeq(h, Len(h) - 1, Len(h)) ELSE h

InitNav ==
    /\ cur \in NavUrls
    /\ hist = <<>>
    /\ anchor = IF cur.scheme = Search THEN cur ELSE NoUrl
    /\ depth = 0
    /\ u = NoUrl /\ text = <<>> /\ sres = Unset /\ res = Unset /\ tpc = Idle
    /\ a = NoUrl /\ b = NoUrl /\ out = Unset
    /\ fs = <<>> /\ epc = Idle /\ fn = Idle /\ arg = Idle
    /\ outcome = Idle /\ ret = Idle /\ lookups = 0

\* cur = cur.join(seg)
NavJoin(seg) ==
    /\ cur # NoUrl
    /\ Len(cur.loc.path) <= MaxNavLen
    /\ cur' = UrlJoin(cur, seg)
    /\ hist' = LastTwo(Append(hist, [op |-> "join", from |-> cur]))
    /\ depth' = IF anchor # NoUrl THEN depth + 1 ELSE depth
    /\ UNCHANGED <<anchor, textVars, pairVars, fsVars>>

\* cur = cur.parent_url()
NavParent ==
    /\ cur # NoUrl
    /\ cur' = UrlParentUrl(cur)
    /\ hist' = LastTwo(Append(hist, [op |-> "parent", from |-> cur]))
    /\ IF anchor # NoUrl /\ depth > 0
       THEN /\ depth' = depth - 1
            /\ anchor' = anchor
       ELSE /\ depth' = 0
            /\ anchor' = IF cur' # NoUrl /\ cur'.scheme = Search THEN cur' ELSE NoUrl
    /\ UNCHANGED <<textVars, pairVars, fsVars>>

\* cur = cur.to_search(frag)
NavToSearch(frag) ==
    /\ cur # NoUrl
    /\ cur' = ToSearch(cur, frag)
    /\ hist' = LastTwo(Append(hist, [op |-> "to_search", from |-> cur]))
    /\ anchor' = cur'
    /\ depth' = 0
    /\ UNCHANGED <<textVars, pairVars, fsVars>>

NextNav ==
    \/ \E seg \in NavSegs : NavJoin(seg)
    \/ NavParent
    \/ \E frag \in PairFrags : NavToSearch(frag)

SpecNav == InitNav /\ [][NextNav]_vars

----------------------------------------------------------------------------
(* Existence helpers: a call suspends once on the metadata service and     *)
(* returns when the lookup completes; the filesystem changes on its own.   *)

InitExists ==
    /\ fs \in [FsPaths -> FsEntries]
    /\ epc = "idle"
    /\ fn = Idle /\ arg = Idle /\ outcome = Idle /\ ret = Idle
    /\ lookups = 0
    /\ u = NoUrl /\ text = <<>> /\ sres = Unset /\ res = Unset /\ tpc = Idle
    /\ a = NoUrl /\ b = NoUrl /\ out = Unset
    /\ cur = NoUrl /\ hist = <<>> /\ anchor = NoUrl /\ depth = 0

\* must_exists(path) is called and awaits Local::symlink_metadata
CallMustExists(path) ==
    /\ epc \in {"idle", "done"}
    /\ epc' = "await"
    /\ fn' = "must_exists"
    /\ arg' = path
    /\ outcome' = Idle
    /\ ret' = Idle
    /\ lookups' = 0
    /\ UNCHANGED <<fs, textVars, pairVars, navVars>>

\* maybe_exists(path) is called and awaits Local::symlink_metadata
CallMaybeExists(path) ==
    /\ epc \in {"idle", "done"}
    /\ epc' = "await"
    /\ fn' = "maybe_exists"
    /\ arg' = path
    /\ outcome' = Idle
    /\ ret' = Idle
    /\ lookups' = 0
    /\ UNCHANGED <<fs, textVars, pairVars, navVars>>

\* the lookup of must_exists completes and the function returns
ReturnMustExists ==
    /\ epc = "await"
    /\ fn = "must_exists"
    /\ outcome' = SymlinkMetadata(fs[arg])
    /\ lookups' = lookups + 1
    /\ ret' = MustExistsOf(outcome')
    /\ epc' = "done"
    /\ UNCHANGED <<fs, fn, arg, textVars, pairVars, navVars>>

\* the lookup of maybe_exists completes and the function returns
ReturnMaybeExists ==
    /\ epc = "await"
    /\ fn = "maybe_exists"
    /\ outcome' = SymlinkMetadata(fs[arg])
    /\ lookups' = lookups + 1
    /\ ret' = MaybeExistsOf(outcome')
    /\ epc' = "done"
    /\ UNCHANGED <<fs, fn, arg, textVars, pairVars, navVars>>

\* another process creates, removes or protects an entry
FsChange(path, entry) ==
    /\ fs[path] # entry
    /\ fs' = [fs EXCEPT ![path] = entry]
    /\ UNCHANGED <<epc, fn, arg, outcome, ret, lookups, textVars, pairVars, navVars>>

NextExists ==
    \/ \E path \in FsPaths : CallMustExists(path)
    \/ \E path \in FsPaths : CallMaybeExists(path)
    \/ ReturnMustExists
    \/ ReturnMaybeExists
    \/ \E path \in FsPaths, entry \in FsEntries : FsChange(path, entry)

SpecExists == InitExists /\ [][NextExists]_vars

----------------------------------------------------------------------------
(* The claims. *)

HasSeparator(bytes) ==
    \E i \in 1..(Len(bytes) - 2) : SubSeq(bytes, i, i + 2) = B(<<":","/","/">>)

KnownProtocols ==
    {B(<<"r","e","g","u","l","a","r">>), B(<<"s","e","a","r","c","h">>),
     B(<<"a","r","c","h","i","v","e">>), B(<<"s","f","t","p">>)}

\* C1: the text round trip: a Url that was displayed and whose text was parsed
\* gives Ok of a Url equal to the one displayed.
C1_RoundTrip ==
    (tpc = "shown" /\ res # Unset) => (res.ok /\ UrlEq(res.url, u))

\* C2: Hash/Eq coherence: two Urls that are equal have hashed the same.
C2_HashEqCoherence ==
    (out # Unset /\ out.op = "hash" /\ UrlEq(a, b)) => out.val[1] = out.val[2]

\* the right-hand side of C3: the Locations are equal and the schemes are both of
\* {Regular, SearchItem} or strictly equal; the fragment is not read
EqualAsClaimed(x, y) ==
    /\ PathComponents(x.loc.path) = PathComponents(y.loc.path)
    /\ \/ {x.scheme.tag, y.scheme.tag} \subseteq {"Regular", "SearchItem"}
       \/ (x.scheme.tag = y.scheme.tag /\ x.scheme.name = y.scheme.name)

\* C3: a == b holds exactly when the Locations are equal and the schemes are both
\* of {Regular, SearchItem} or strictly equal (Sftp name included), whatever the
\* fragments; the SearchItem /a/x joined from the Search /a equals the Regular /a/x
\* and does not equal the Search /a/x.
C3_UrlEquality ==
    (out # Unset /\ out.op = "eq") =>
        /\ out.val = EqualAsClaimed(a, b)
        /\ (a.scheme = SearchItem /\ b = Local(B(<<"/","a","/","x">>))
              /\ a.loc.path = B(<<"/","a","/","x">>)) => out.val
        /\ (a.scheme = SearchItem /\ a.loc.path = B(<<"/","a","/","x">>)
              /\ b = ToSearch(Local(B(<<"/","a","/","x">>)), B(<<"q">>))) => ~ out.val

\* C3 witness: the joined SearchItem /a/x (base /a) was compared with local("/a/x")
C3_Witness ==
    /\ out # Unset /\ out.op = "eq" /\ out.val
    /\ a = UrlJoin(ToSearch(Local(B(<<"/","a">>)), B(<<"q">>)), B(<<"x">>))
    /\ a.scheme = SearchItem
    /\ b = Local(B(<<"/","a","/","x">>))

\* the encoding C4 describes: C0 controls and '#' as %XX, every other byte as it is
RECURSIVE EncodeAsClaimed(_)
EncodeAsClaimed(bytes) ==
    IF bytes = <<>> THEN <<>>
    ELSE (IF Head(bytes) < 32 \/ Head(bytes) = Ascii["#"]
          THEN <<Ascii["%"], HexDigit(Head(bytes) \div 16), HexDigit(Head(bytes) % 16)>>
          ELSE <<Head(bytes)>>)
         \o EncodeAsClaimed(Tail(bytes))

\* the scheme prefix of C4's display form, its "://" included
PrefixAsClaimed(s) ==
    CASE s.tag = "Search" -> B(<<"s","e","a","r","c","h",":","/","/">>)
      [] s.tag = "Archive" -> B(<<"a","r","c","h","i","v","e",":","/","/">>)
      [] s.tag = "Sftp" -> B(<<"s","f","t","p",":","/","/">>) \o s.name \o B(<<"/">>)

\* C4: the display form: the bare Location text for Regular and SearchItem; for
\* the other schemes the scheme prefix with one "://", the percent-encoded Location
\* and, only when the fragment is not empty, "#" and the percent-encoded fragment.
C4_DisplayForm ==
    (tpc = "shown") =>
        IF u.scheme.tag \in {"Regular", "SearchItem"}
        THEN text = u.loc.path
        ELSE text = PrefixAsClaimed(u.scheme) \o EncodeAsClaimed(u.loc.path)
                    \o (IF u.frag # <<>>
                        THEN B(<<"#">>) \o EncodeAsClaimed(u.frag)
                        ELSE <<>>)

\* C5: try_from's decoding: for a scheme other than Regular the rest after the
\* prefix is split at the first '#', the left part percent-decoded is the Location
\* and the right part percent-decoded is the fragment (so the fragment of a
\* displayed Url is read back); for Regular the rest is the Location as it is and
\* the fragment is empty.
C5_TryFromDecoding ==
    (res # Unset /\ res.ok) =>
        LET sp == SchemeParse(text)
            rest == Drop(text, sp.skip)
            cut == SplitBySeq(rest, B(<<"#">>))
        IN  /\ sp.scheme = Regular =>
                (res.url.loc.path = rest /\ res.url.frag = <<>>)
            /\ sp.scheme # Regular =>
                /\ res.url.loc.path = PercentDecode(cut.before)
                /\ res.url.frag = (IF cut.found THEN PercentDecode(cut.after) ELSE <<>>)
            /\ (tpc = "shown" /\ u.scheme.tag \notin {"Regular", "SearchItem"}) =>
                res.url.frag = u.frag

\* what C6 says of Scheme::parse and try_from apart from the sftp example:
\* the consumed count is the length of the prefix, the documented results, the
\* failures, and try_from failing whenever Scheme::parse does
SchemeParseAsClaimed ==
    /\ (sres # Unset /\ ~ HasSeparator(text)) =>
            sres = [ok |-> TRUE, scheme |-> Regular, skip |-> 0]
    /\ (sres # Unset /\ sres.ok /\ HasSeparator(text)) =>
            /\ sres.skip <= Len(text)
            /\ \/ SubSeq(text, 1, sres.skip) = SchemeDisplay(sres.scheme)
               \/ /\ sres.scheme.tag = "Sftp"
                  /\ sres.skip = Len(text)
                  /\ text \o B(<<"/">>) = SchemeDisplay(sres.scheme)
    /\ (sres # Unset /\ text = B(<<"a","r","c","h","i","v","e",":","/","/","a","/","b">>)) =>
            sres = [ok |-> TRUE, scheme |-> Archive, skip |-> 10]
    /\ (sres # Unset /\ text = B(<<"/","a","/","b">>)) =>
            sres = [ok |-> TRUE, scheme |-> Regular, skip |-> 0]
    /\ (sres # Unset /\ text = B(<<"s","f","t","p",":","/","/","/","a">>)) => ~ sres.ok
    /\ (sres # Unset
          /\ text = B(<<"s","f","t","p",":","/","/","b","a","d","!","/","a">>)) => ~ sres.ok
    /\ (sres # Unset /\ IsPrefix(B(<<"s","f","t","p",":","/","/">>), text)) =>
            LET name == TakeWhileNotSlash(Drop(text, 7))
            IN  (\/ name = <<>>
                 \/ \E i \in 1..Len(name) :
                        ~ (IsAsciiAlphanumeric(name[i]) \/ name[i] = Ascii["-"]))
                => ~ sres.ok
    /\ (sres # Unset /\ HasSeparator(text)
          /\ ~ \E p \in KnownProtocols : IsPrefix(p \o B(<<":","/","/">>), text)) => ~ sres.ok
    /\ (sres # Unset /\ res # Unset /\ ~ sres.ok) => ~ res.ok
    /\ (sres # Unset /\ res # Unset /\ sres.ok /\ res.ok) => res.url.scheme = sres.scheme

SftpExample == B(<<"s","f","t","p",":","/","/","b","o","x","-","1","/","a">>)

\* C6 as stated: Scheme::parse returns the scheme and the bytes its prefix
\* consumed, with parse("sftp://box-1/a") = (Sftp("box-1"), 11), and fails for an
\* empty or invalid sftp name and for an unrecognized prefix, and try_from with it.
C6_SchemeParse_Original ==
    /\ SchemeParseAsClaimed
    /\ (sres # Unset /\ text = SftpExample) =>
            sres = [ok |-> TRUE, scheme |-> Sftp(B(<<"b","o","x","-","1">>)), skip |-> 11]

\* C6 as amended: the same, with parse("sftp://box-1/a") = (Sftp("box-1"), 13):
\* "sftp://box-1/" is 13 bytes long.
C6_SchemeParse ==
    /\ SchemeParseAsClaimed
    /\ (sres # Unset /\ text = SftpExample) =>
            sres = [ok |-> TRUE, scheme |-> Sftp(B(<<"b","o","x","-","1">>)), skip |-> 13]

\* C6 witness: Scheme::parse and try_from have run on "sftp://box-1/a"
C6_Witness ==
    /\ text = SftpExample
    /\ sres # Unset /\ sres.ok /\ sres.skip = 13
    /\ res # Unset /\ res.ok /\ res.url.loc.path = B(<<"a">>)

\* C7: search navigation keeps its base: while joins and parent_url calls stay at
\* or below the Location L of the Search Url the navigation started from, the
\* current Url is a Search exactly when its Location is L (and then equals the
\* start) and otherwise a SearchItem whose base is L; parent_url finds a parent
\* as long as joins remain to be undone.
C7_SearchNavigation ==
    (anchor # NoUrl) =>
        /\ cur # NoUrl
        /\ depth >= 0
        /\ (cur.scheme = Search) <=> PathEq(cur.loc.path, anchor.loc.path)
        /\ (depth = 0) <=> (cur.scheme = Search)
        /\ (cur.scheme = Search) => UrlEq(cur, anchor)
        /\ (cur.scheme # Search) =>
                (cur.scheme = SearchItem /\ PathEq(cur.loc.base, anchor.loc.path))
        /\ Len(Names(cur.loc.path)) = Len(Names(anchor.loc.path)) + depth

\* C7 witness: two joins below a Search, then two parent_url calls, end at the Search
C7_Witness ==
    /\ anchor # NoUrl /\ depth = 0 /\ cur # NoUrl /\ cur.scheme = Search
    /\ Len(hist) = 2 /\ hist[1].op = "parent" /\ hist[2].op = "parent"
    /\ hist[1].from.scheme = SearchItem
    /\ Len(Names(hist[1].from.loc.path)) = Len(Names(anchor.loc.path)) + 2
    /\ PathEq(hist[1].from.loc.base, anchor.loc.path)

\* C8: join then parent_url returns to the start: for a Regular, Sftp or Archive
\* Url the result is Some, has the Location joined onto and an empty fragment, and
\* keeps the scheme (Sftp with its name), except that Archive becomes Regular;
\* parent_url is None exactly when the Location has no parent.
C8_JoinThenParent ==
    /\ (Len(hist) = 2 /\ hist[1].op = "join" /\ hist[2].op = "parent"
          /\ hist[1].from.scheme.tag \in {"Regular", "Sftp", "Archive"}) =>
            /\ cur # NoUrl
            /\ PathEq(cur.loc.path, hist[1].from.loc.path)
            /\ cur.frag = <<>>
            /\ cur.scheme = IF hist[1].from.scheme.tag = "Archive"
                            THEN Regular
                            ELSE hist[1].from.scheme
    /\ (hist # <<>> /\ hist[Len(hist)].op = "parent") =>
            ((cur = NoUrl) <=> (Names(hist[Len(hist)].from.loc.path) = <<>>))

\* C8 witness: an Sftp Url with a fragment was joined onto and parent_url called
C8_Witness ==
    /\ Len(hist) = 2 /\ hist[1].op = "join" /\ hist[2].op = "parent"
    /\ hist[1].from.scheme.tag = "Sftp"
    /\ hist[1].from.frag # <<>>
    /\ cur # NoUrl /\ cur.scheme.tag = "Sftp"

\* C9: a call of must_exists or maybe_exists has made exactly one lookup when it
\* returns; must_exists is true only for a successful lookup, maybe_exists is
\* false only for not-found; so must_exists implies maybe_exists for any outcome.
C9_ExistenceHelpers ==
    /\ (epc = "await") => lookups = 0
    /\ (epc = "done") =>
        /\ lookups = 1
        /\ (fn = "must_exists") => (ret <=> outcome = "Ok")
        /\ (fn = "maybe_exists") => (ret <=> outcome # "NotFound")
        /\ (outcome = "NotFound") => ret = FALSE
        /\ (outcome = "PermissionDenied") => (ret <=> fn = "maybe_exists")
        /\ MustExistsOf(outcome) => MaybeExistsOf(outcome)

\* C9 witness: maybe_exists returned true for a lookup that was denied
C9_Witness ==
    /\ epc = "done" /\ fn = "maybe_exists"
    /\ outcome = "PermissionDenied" /\ ret = TRUE /\ lookups = 1

\* C10: the order agrees with equality: a == b exactly when cmp reports Equal.
C10_OrderAgreesWithEq ==
    (out # Unset /\ out.op = "cmp") => (UrlEq(a, b) <=> out.val = "Equal")

====
